---- MODULE Spec2Model ----
(***************************************************************************)
(* A model of the wampnado router's URI registry (URIManager), its router  *)
(* Topic with Subscriber fan-out, and the lock-protected create() path.    *)
(*                                                                         *)
(* URI names are sequences of one-character strings, so that the name      *)
(* pattern is matched character by character as the regular expression     *)
(* engine does it.  Identifiers come from one process-wide generator.      *)
(***************************************************************************)
EXTENDS Integers, Sequences, FiniteSets, TLC

(***************************************************************************)
(* Bounds of the model.                                                    *)
(***************************************************************************)
\* number of catalog errors the constructor creates (of the 22)
CatalogSize == 3
\* number of transport-backed connection handlers
NumHandlers == 2
\* identifiers create_global_id may hand out after construction
IdBudget == 4
\* identifiers available to the runs on one Topic object
TopicIdBudget == 4
\* identifiers available to the runs that enumerate candidate names
NameIdBudget == 2
\* longest candidate name enumerated for name validation
MaxNameLen == 3
\* identifiers available to the concurrent create() runs
ConcIdBudget == 2
\* request identifiers a client may put in a message
NumRequests == 2
\* identifiers available to the acknowledgement runs
AckIdBudget == 3
\* identifiers available to the zombification runs
ZombieIdBudget == 3
\* clock readings datetime.now() may return
NumTimes == 2
\* identifiers available to the legacy registry runs
LegacyIdBudget == 2
\* identifiers available to the connection-removal runs
LegacyConnIdBudget == 3
\* identifiers available to the legacy processors' runs
PubSubIdBudget == 2
RaceIdBudget == 2
CollectIdBudget == 3
MaxMessages == 2

VARIABLES
    uris,           \* URIManager.uris: name -> URI object
    registrations,  \* URIManager.registrations: registration id -> name
    next_id,        \* state of create_global_id: the next identifier
    closed,         \* handlers whose socket is closed
    ret,            \* the last completed call: operation, arguments, outcome
    lock,           \* URIManager.lock (RLock): owner and recursion count
    pc,             \* per thread: position inside create()
    frame,          \* per thread: locals of the call in progress
    candidate,      \* the candidate name of a name-validation run
    processor,      \* the processor constructed for the last inbound message
    realm,          \* per handler: the realm attached by attach_realm
    transport,      \* per handler: zombie flag and zombification_datetime
    topics_manager, \* legacy TopicsManager: topic name -> Topic
    connection_topics, \* legacy ClientConnection.topics, per connection
    client,         \* the local client of a LocalTransport: its two queues
    history         \* what the LocalTransport calls were given and returned

vars ==
    <<uris, registrations, next_id, closed, ret, lock, pc, frame, candidate,
      processor, realm, transport, topics_manager, connection_topics,
      client, history>>

(***************************************************************************)
(* Handlers, session identities and identifiers.                           *)
(***************************************************************************)
NoHandler == 0
Handlers == 1 .. NumHandlers
NoId == NoHandler

\* The standard error catalog, in the order URIManager.__init__ creates it.
ErrorNames ==
   << 
      <<"w", "a", "m", "p", ".", "c", "l", "o", "s", "e", ".", "c", "l", "o", "s", "e", "_", "r", "e", "a", "l", "m">>,
      <<"w", "a", "m", "p", ".", "c", "l", "o", "s", "e", ".", "g", "o", "o", "d", "b", "y", "e", "_", "a", "n", "d", "_", "o", "u", "t">>,
      <<"w", "a", "m", "p", ".", "e", "r", "r", "o", "r", ".", "i", "n", "v", "a", "l", "i", "d", "_", "u", "r", "i">>,
      <<"w", "a", "m", "p", ".", "e", "r", "r", "o", "r", ".", "n", "o", "_", "s", "u", "c", "h", "_", "p", "r", "o", "c", "e", "d", "u", "r", "e">>,
      <<"w", "a", "m", "p", ".", "e", "r", "r", "o", "r", ".", "p", "r", "o", "c", "e", "d", "u", "r", "e", "_", "a", "l", "r", "e", "a", "d", "y", "_", "e", "x", "i", "s", "t", "s">>,
      <<"w", "a", "m", "p", ".", "e", "r", "r", "o", "r", ".", "n", "o", "_", "s", "u", "c", "h", "_", "r", "e", "g", "i", "s", "t", "r", "a", "t", "i", "o", "n">>,
      <<"w", "a", "m", "p", ".", "e", "r", "r", "o", "r", ".", "n", "o", "_", "s", "u", "c", "h", "_", "s", "u", "b", "s", "c", "r", "i", "p", "t", "i", "o", "n">>,
      <<"w", "a", "m", "p", ".", "e", "r", "r", "o", "r", ".", "i", "n", "v", "a", "l", "i", "d", "_", "a", "r", "g", "u", "m", "e", "n", "t">>,
      <<"w", "a", "m", "p", ".", "c", "l", "o", "s", "e", ".", "s", "y", "s", "t", "e", "m", "_", "s", "h", "u", "t", "d", "o", "w", "n">>,
      <<"w", "a", "m", "p", ".", "e", "r", "r", "o", "r", ".", "p", "r", "o", "t", "o", "c", "o", "l", "_", "v", "i", "o", "l", "a", "t", "i", "o", "n">>,
      <<"w", "a", "m", "p", ".", "e", "r", "r", "o", "r", ".", "n", "o", "t", "_", "a", "u", "t", "h", "o", "r", "i", "z", "e", "d">>,
      <<"w", "a", "m", "p", ".", "e", "r", "r", "o", "r", ".", "a", "u", "t", "h", "o", "r", "i", "z", "a", "t", "i", "o", "n", "_", "f", "a", "i", "l", "e", "d">>,
      <<"w", "a", "m", "p", ".", "e", "r", "r", "o", "r", ".", "n", "o", "_", "s", "u", "c", "h", "_", "r", "e", "a", "l", "m">>,
      <<"w", "a", "m", "p", ".", "e", "r", "r", "o", "r", ".", "n", "o", "_", "s", "u", "c", "h", "_", "r", "o", "l", "e">>,
      <<"w", "a", "m", "p", ".", "e", "r", "r", "o", "r", ".", "c", "a", "n", "c", "e", "l", "e", "d">>,
      <<"w", "a", "m", "p", ".", "e", "r", "r", "o", "r", ".", "o", "p", "t", "i", "o", "n", "_", "n", "o", "t", "_", "a", "l", "l", "o", "w", "e", "d">>,
      <<"w", "a", "m", "p", ".", "e", "r", "r", "o", "r", ".", "n", "o", "_", "e", "l", "i", "g", "i", "b", "l", "e", "_", "c", "a", "l", "l", "e", "e">>,
      <<"w", "a", "m", "p", ".", "e", "r", "r", "o", "r", ".", "o", "p", "t", "i", "o", "n", "_", "d", "i", "s", "a", "l", "l", "o", "w", "e", "d", ".", "d", "i", "s", "c", "l", "o", "s", "e", "_", "m", "e">>,
      <<"w", "a", "m", "p", ".", "e", "r", "r", "o", "r", ".", "n", "e", "t", "w", "o", "r", "k", "_", "f", "a", "i", "l", "u", "r", "e">>,
      <<"w", "a", "m", "p", ".", "e", "r", "r", "o", "r", ".", "n", "o", "t", "_", "p", "e", "n", "d", "i", "n", "g">>,
      <<"w", "a", "m", "p", ".", "e", "r", "r", "o", "r", ".", "u", "n", "s", "u", "p", "p", "o", "r", "t", "e", "d">>,
      <<"w", "a", "m", "p", ".", "e", "r", "r", "o", "r", ".", "g", "e", "n", "e", "r", "a", "l", "_", "e", "r", "r", "o", "r">>
   >>

\* the model's manager creates the first CatalogSize names of the catalog
NumErrors == CatalogSize

\* server_auth_ident.sessionid: the fixed identity of pseudo subscribers
ServerSessionId == NumErrors + 1

\* handler.sessionid: each connection has its own identifier
sessionid_of(h) == NumErrors + 1 + h

\* the first identifier create_global_id returns after construction
FirstFreeId == NumErrors + NumHandlers + 2

(***************************************************************************)
(* Finite maps (Python dicts).                                             *)
(***************************************************************************)
EmptyMap == [x \in {} |-> 0]
Put(f, k, v) == [x \in (DOMAIN f) \cup {k} |-> IF x = k THEN v ELSE f[x]]
Del(f, k) == [x \in (DOMAIN f) \ {k} |-> f[x]]

(***************************************************************************)
(* The URI name pattern  ^([0-9a-z_]+\.)*([0-9a-z_]+)$  as re.match runs   *)
(* it: "$" matches at the end of the string and also just before a newline *)
(* that is the last character of the string.                               *)
(***************************************************************************)
WordChars ==
    {"0", "1", "2", "3", "4", "5", "6", "7", "8", "9", "_",
     "a", "b", "c", "d", "e", "f", "g", "h", "i", "j", "k", "l", "m",
     "n", "o", "p", "q", "r", "s", "t", "u", "v", "w", "x", "y", "z"}

RECURSIVE pattern_run(_, _, _)
pattern_run(s, i, in_segment) ==
    IF i > Len(s) THEN in_segment
    ELSE IF in_segment /\ i = Len(s) /\ s[i] = "\n" THEN TRUE
    ELSE IF s[i] \in WordChars THEN pattern_run(s, i + 1, TRUE)
    ELSE IF s[i] = "." /\ in_segment THEN pattern_run(s, i + 1, FALSE)
    ELSE FALSE

uri_pattern_match(s) == pattern_run(s, 1, FALSE)

(***************************************************************************)
(* URI objects.  registration_id doubles as the object's identity: every   *)
(* object is constructed with a fresh one.                                 *)
(***************************************************************************)
NoURI ==
    [name |-> <<>>, uri_type |-> "NONE", registration_id |-> NoId,
     reserver |-> NoHandler, subscribers |-> <<>>, provider |-> NoHandler]

Topic(name, reserver, id) ==
    [name |-> name, uri_type |-> "TOPIC", registration_id |-> id,
     reserver |-> reserver, subscribers |-> <<>>, provider |-> NoHandler]

Procedure(name, provider_handler, id) ==
    [name |-> name, uri_type |-> "PROCEDURE", registration_id |-> id,
     reserver |-> NoHandler, subscribers |-> <<>>, provider |-> provider_handler]

Error(name, id) ==
    [name |-> name, uri_type |-> "ERROR", registration_id |-> id,
     reserver |-> NoHandler, subscribers |-> <<>>, provider |-> NoHandler]

\* Subscriber.__init__: a fresh subscription id; a function handler is a
\* pseudo subscriber and keeps no handler.
Subscriber(handler, is_function, id) ==
    [subscription_id |-> id, pseudo |-> is_function,
     handler |-> IF is_function THEN NoHandler ELSE handler]

\* Subscriber.sessionid
Subscriber_sessionid(sub) ==
    IF sub.pseudo THEN ServerSessionId ELSE sessionid_of(sub.handler)

(***************************************************************************)
(* Wire messages.  A message is a record with its integer code and the     *)
(* fields of its kind; the options of a message are an open record whose   *)
(* unknown fields read as absent.                                          *)
(***************************************************************************)
Code ==
    [HELLO |-> 1, WELCOME |-> 2, GOODBYE |-> 6, ERROR |-> 8, PUBLISH |-> 16,
     PUBLISHED |-> 17, SUBSCRIBE |-> 32, SUBSCRIBED |-> 33, EVENT |-> 36]

NoMessage == [code |-> NoId]

RequestIds == 1 .. NumRequests

\* Options(**fields): attribute read, absent for a field never set
Options_read(options, field) ==
    IF field \in DOMAIN options THEN options[field] ELSE FALSE

\* Options(field=value)
OptionsOf(field, value) == [f \in {field} |-> value]

PublishMessage(request_id, options) ==
    [code |-> Code.PUBLISH, request_id |-> request_id, options |-> options]

PublishedMessage(request_id, publication_id) ==
    [code |-> Code.PUBLISHED, request_id |-> request_id,
     publication_id |-> publication_id]

(***************************************************************************)
(* Transports and legacy connections before anything happened to them.     *)
(***************************************************************************)
NoTime == NoId

NewTransport == [zombie |-> FALSE, zombification_datetime |-> NoTime]

NoTopics == [subscriber |-> EmptyMap, publisher |-> EmptyMap]

NoRealm == "none"

(***************************************************************************)
(* Processors.  Processor.__init__ sets the defaults, runs process() and   *)
(* turns a protocol exception into the answer; any other exception leaves  *)
(* the constructor and no processor object results.                        *)
(***************************************************************************)
absent == "absent"

\* the fields Processor.__init__ sets before process() runs
Processor_defaults(kind, message, handler) ==
    [kind |-> kind, handler |-> handler, message |-> message,
     answer_message |-> NoMessage, broadcast_messages |-> <<>>,
     direct_messages |-> <<>>, must_close |-> FALSE, close_code |-> NoId,
     close_reason |-> absent, exc |-> "none", exc_message |-> NoMessage,
     constructed |-> FALSE]

NoProcessor == Processor_defaults("none", <<>>, NoHandler)

\* the field names of URIManager.errors, in the order of the catalog
ErrorFields ==
    <<"close_realm", "goodbye_and_out", "invalid_uri", "no_such_procedure",
      "procedure_already_exists", "no_such_registration",
      "no_such_subscription", "invalid_argument", "system_shutdown",
      "protocol_violation", "not_authorized", "authorization_failed",
      "no_such_realm", "no_such_role", "cancelled", "option_not_allowed",
      "no_eligible_callee", "option_disallowed__disclose_me",
      "network_failure", "not_pending", "unsupported", "general_error">>

\* realm.errors.<field>.to_uri(): the name the catalog entry was created with
errors_to_uri(field) ==
    ErrorNames[CHOOSE k \in 1 .. Len(ErrorFields) : ErrorFields[k] = field]

\* Message(*value): the code and the id are the first two wire values
Message_code(value) == value[1]
Message_id(value) == value[2]

ErrorMessage(request_code, request_id, uri, details) ==
    [code |-> Code.ERROR, request_code |-> request_code,
     request_id |-> request_id, uri |-> uri, details |-> details]

WelcomeMessage == [code |-> Code.WELCOME]

GoodbyeMessage(value) ==
    [code |-> Code.GOODBYE, details |-> value[2], reason |-> value[3]]

\* error.to_simple_exception(...).message(): the Error message the exception
\* carries
exception_message(field) == ErrorMessage(NoId, NoId, errors_to_uri(field), field)

\* what a process() leaves behind: the processor as mutated, the exception
\* raised if any, the value returned, the realm attached if any
Outcome(self, exc, exc_message, result, attach) ==
    [self |-> self, exc |-> exc, exc_message |-> exc_message,
     result |-> result, attach |-> attach]

\* UnhandledProcessor.process answering with another catalog entry
UnhandledProcessor_general_error(self) ==
    Outcome(self, "none", NoMessage,
            ErrorMessage(Message_code(self.message), Message_id(self.message),
                         errors_to_uri("general_error"), self.message),
            NoRealm)

\* UnhandledProcessor.process
UnhandledProcessor_process(self) ==
    Outcome(self, "none", NoMessage,
            ErrorMessage(Message_code(self.message), Message_id(self.message),
                         errors_to_uri("unsupported"), self.message),
            NoRealm)

\* HelloProcessor.process; attach_exc is the protocol error attach_realm
\* raises, "none" when it attaches the realm
HelloProcessor_process(self, attach_exc) ==
    IF attach_exc = "none"
    THEN Outcome(self, "none", NoMessage, WelcomeMessage, self.message[2])
    ELSE Outcome(self, "WAMPException", exception_message(attach_exc),
                 NoMessage, NoRealm)

\* GoodbyeProcessor.process: line 109 reads the details of the answer
\* message, which Processor.__init__ has just set to None
GoodbyeProcessor_process(self) ==
    LET closing == [self EXCEPT !.must_close = TRUE, !.close_code = 1000]
        pending == self.answer_message
    IN  IF "details" \notin DOMAIN pending
        THEN Outcome(closing, "AttributeError", NoMessage, NoMessage, NoRealm)
        ELSE Outcome([closing EXCEPT !.close_reason =
                         IF "message" \in DOMAIN pending.details
                         THEN pending.details["message"] ELSE ""],
                     "none", NoMessage, GoodbyeMessage(self.message), NoRealm)

\* self.process() of the concrete class
process(self, attach_exc) ==
    CASE self.kind = "Hello" -> HelloProcessor_process(self, attach_exc)
      [] self.kind = "Goodbye" -> GoodbyeProcessor_process(self)
      [] OTHER -> UnhandledProcessor_process(self)

\* Processor.__init__ closing the connection on a protocol exception
Processor_init_closing(kind, message, handler, attach_exc) ==
    LET run == process(Processor_defaults(kind, message, handler), attach_exc)
    IN  [processor |->
            IF run.exc = "none"
            THEN [run.self EXCEPT !.answer_message = run.result,
                                  !.constructed = TRUE]
            ELSE [run.self EXCEPT !.answer_message = run.exc_message,
                                  !.exc = run.exc,
                                  !.exc_message = run.exc_message,
                                  !.must_close = TRUE,
                                  !.constructed = TRUE],
         attach |-> run.attach]

\* Processor.__init__
Processor_init(kind, message, handler, attach_exc) ==
    LET run == process(Processor_defaults(kind, message, handler), attach_exc)
    IN  [processor |->
            IF run.exc = "none"
            THEN [run.self EXCEPT !.answer_message = run.result,
                                  !.constructed = TRUE]
            ELSE IF run.exc = "WAMPException"
            THEN [run.self EXCEPT !.answer_message = run.exc_message,
                                  !.exc = run.exc,
                                  !.exc_message = run.exc_message,
                                  !.constructed = TRUE]
            ELSE [run.self EXCEPT !.exc = run.exc],
         attach |-> run.attach]

\* the processor class chosen for a message code
processor_for(code) ==
    IF code = Code.HELLO THEN "Hello"
    ELSE IF code = Code.GOODBYE THEN "Goodbye"
    ELSE "Unhandled"


(***************************************************************************)
\* get() raising for a missing name whatever noraise says
get_raising(U, uri_name, noraise) ==
    IF ~uri_pattern_match(uri_name)
    THEN [exc |-> "invalid_uri", uri |-> NoURI]
    ELSE IF uri_name \notin DOMAIN U
    THEN [exc |-> "no_such_role", uri |-> NoURI]
    ELSE [exc |-> "none", uri |-> U[uri_name]]

get(U, uri_name, noraise) ==
    IF ~uri_pattern_match(uri_name)
    THEN [exc |-> "invalid_uri", uri |-> NoURI]
    ELSE IF uri_name \notin DOMAIN U /\ ~noraise
    THEN [exc |-> "no_such_role", uri |-> NoURI]
    ELSE [exc |-> "none",
          uri |-> IF uri_name \in DOMAIN U THEN U[uri_name] ELSE NoURI]

\* create() without the "only add if it doesn't exist" test
create_always_insert(U, R, name, uri_obj, returnifexists, noraise) ==
    LET found == get(U, name, TRUE) IN
    IF found.exc # "none"
    THEN [exc |-> found.exc, uri |-> NoURI, registration_id |-> NoId,
          uris |-> U, registrations |-> R]
    ELSE LET U1 == Put(U, name, uri_obj)
             registration_id == U1[name].registration_id
         IN  [exc |-> "none", uri |-> U1[name],
              registration_id |-> registration_id,
              uris |-> U1, registrations |-> Put(R, registration_id, name)]

create(U, R, name, uri_obj, returnifexists, noraise) ==
    LET found == get(U, name, TRUE) IN
    IF found.exc # "none"
    THEN [exc |-> found.exc, uri |-> NoURI, registration_id |-> NoId,
          uris |-> U, registrations |-> R]
    ELSE IF found.uri = NoURI
    THEN LET U1 == Put(U, name, uri_obj)
             registration_id == U1[name].registration_id
         IN  [exc |-> "none", uri |-> U1[name],
              registration_id |-> registration_id,
              uris |-> U1, registrations |-> Put(R, registration_id, name)]
    ELSE IF returnifexists
    THEN [exc |-> "none", uri |-> found.uri,
          registration_id |-> found.uri.registration_id,
          uris |-> U, registrations |-> R]
    ELSE IF ~noraise
    THEN [exc |-> "procedure_already_exists", uri |-> NoURI,
          registration_id |-> NoId, uris |-> U, registrations |-> R]
    ELSE [exc |-> "none", uri |-> NoURI, registration_id |-> NoId,
          uris |-> U, registrations |-> R]

(***************************************************************************)
(* Topic.  The subscriber table is a dict keyed by subscription id; a      *)
(* sequence of Subscribers keeps its insertion (= iteration) order.        *)
(***************************************************************************)
subscriber_keys(subs) == {subs[i].subscription_id : i \in 1 .. Len(subs)}

\* self.subscribers[key] = sub
dict_set(subs, key, sub) ==
    IF key \in subscriber_keys(subs)
    THEN [i \in 1 .. Len(subs) |->
            IF subs[i].subscription_id = key THEN sub ELSE subs[i]]
    ELSE Append(subs, sub)

\* self.subscribers.pop(key) / del self.subscribers[key]
dict_del(subs, key) ==
    LET keep(sub) == sub.subscription_id # key IN SelectSeq(subs, keep)

\* Topic.add_subscriber
Topic_add_subscriber(topic, handler, is_function, id) ==
    LET sub == Subscriber(handler, is_function, id)
    IN  [topic EXCEPT !.subscribers = dict_set(@, sub.subscription_id, sub)]

\* Topic.remove_subscriber: the table is looked up by handler.sessionid
Topic_remove_subscriber(topic, handler) ==
    IF sessionid_of(handler) \in subscriber_keys(topic.subscribers)
    THEN [topic EXCEPT !.subscribers = dict_del(@, sessionid_of(handler))]
    ELSE topic

\* Topic.disconnect
Topic_disconnect(topic, handler) ==
    LET cleared ==
            IF topic.reserver # NoHandler /\ topic.reserver = handler
            THEN [topic EXCEPT !.reserver = NoHandler]
            ELSE topic
    IN  Topic_remove_subscriber(cleared, handler)

\* Topic.live counting a reservation as life
Topic_live_while_reserved(topic) ==
    Len(topic.subscribers) > 0 \/ topic.reserver # NoHandler

\* Topic.live
Topic_live(topic) == Len(topic.subscribers) > 0

\* Topic.publish without the publisher test
not_origin_untested(sub, origin_handler) == TRUE

\* line 78 of Topic.publish: the publisher does not receive the message
not_origin(sub, origin_handler) ==
    \/ origin_handler = NoHandler
    \/ Subscriber_sessionid(sub) # sessionid_of(origin_handler)

\* One iteration of the fan-out loop of Topic.publish.  A write to a closed
\* socket raises WebSocketClosedError, caught inside the loop.
fan_out_step(sub, origin_handler, closed_now, acc) ==
    IF sub.pseudo
    THEN [acc EXCEPT !.callbacks = Append(@, sub.subscription_id)]
    ELSE IF not_origin(sub, origin_handler)
    THEN IF sub.handler \in closed_now
         THEN [acc EXCEPT !.purge = Append(@, sub.subscription_id)]
         ELSE [acc EXCEPT !.writes =
                  Append(@, [subscription_id |-> sub.subscription_id,
                             handler |-> sub.handler])]
    ELSE acc

RECURSIVE fan_out(_, _, _, _)
fan_out(subs, i, origin_handler, closed_now) ==
    IF i = 0
    THEN [writes |-> <<>>, purge |-> <<>>, callbacks |-> <<>>]
    ELSE fan_out_step(subs[i], origin_handler, closed_now,
                      fan_out(subs, i - 1, origin_handler, closed_now))

\* Topic.publish without the deletion of the purged subscriptions
purge_none(subs, purge, k) == subs

RECURSIVE purge_all(_, _, _)
purge_all(subs, purge, k) ==
    IF k > Len(purge) THEN subs
    ELSE purge_all(dict_del(subs, purge[k]), purge, k + 1)

\* lines 89-92 of Topic.publish: the value returned to the caller
Topic_publish_return(topic, broadcast_msg) ==
    IF Options_read(broadcast_msg.options, "acknowlege")
    THEN PublishedMessage(broadcast_msg.request_id, topic.registration_id)
    ELSE NoMessage

\* Topic.publish: the fan-out, then the purge of the failed subscriptions
Topic_publish(topic, origin_handler, closed_now) ==
    LET sent == fan_out(topic.subscribers, Len(topic.subscribers),
                        origin_handler, closed_now)
    IN  [topic |-> [topic EXCEPT !.subscribers = purge_all(@, sent.purge, 1)],
         writes |-> sent.writes, purge |-> sent.purge,
         callbacks |-> sent.callbacks]

(***************************************************************************)
(* Procedure and Error URIs in URIManager.disconnect: a Procedure drops a  *)
(* provider that disconnects and is live while it has one; an Error URI    *)
(* holds no handler and stays.                                             *)
(***************************************************************************)
URI_disconnect(uri, handler) ==
    IF uri.uri_type = "TOPIC" THEN Topic_disconnect(uri, handler)
    ELSE IF uri.uri_type = "PROCEDURE" /\ uri.provider = handler
    THEN [uri EXCEPT !.provider = NoHandler]
    ELSE uri

URI_live(uri) ==
    IF uri.uri_type = "TOPIC" THEN Topic_live(uri)
    ELSE IF uri.uri_type = "PROCEDURE" THEN uri.provider # NoHandler
    ELSE TRUE

(***************************************************************************)
(* URIManager operations as functions of the tables.                       *)
(***************************************************************************)
\* URIManager.create_topic (reserve_topic passes a reserver)
\* create_topic without the check of the returned URI's type
create_topic_any_type(U, R, name, reserver, id) ==
    create(U, R, name, Topic(name, reserver, id), TRUE, FALSE)

create_topic(U, R, name, reserver, id) ==
    LET args == create(U, R, name, Topic(name, reserver, id), TRUE, FALSE)
    IN  IF args.exc = "none" /\ args.uri.uri_type # "TOPIC"
        THEN [args EXCEPT !.exc = "no_such_subscription",
                          !.uri = NoURI, !.registration_id = NoId]
        ELSE args

\* create_procedure leaving returnifexists at its default
create_procedure_returning(U, R, name, provider_handler, id) ==
    create(U, R, name, Procedure(name, provider_handler, id), TRUE, FALSE)

\* URIManager.create_procedure
create_procedure(U, R, name, provider_handler, id) ==
    create(U, R, name, Procedure(name, provider_handler, id), FALSE, FALSE)

\* URIManager.create_error
create_error(U, R, name, id) ==
    create(U, R, name, Error(name, id), TRUE, FALSE)

\* URIManager.__init__: the catalog is created through create_error, one
\* name after the other, each Error taking a fresh identifier.
RECURSIVE construct(_)
construct(k) ==
    IF k = 0
    THEN [uris |-> EmptyMap, registrations |-> EmptyMap]
    ELSE LET before == construct(k - 1)
             made == create_error(before.uris, before.registrations,
                                  ErrorNames[k], k)
         IN  [uris |-> made.uris, registrations |-> made.registrations]

Constructed == construct(NumErrors)

\* URIManager.remove.  The scan for further registrations of the same name
\* pops the *name* from the id-keyed table, which raises KeyError.
remove(U, R, registration_id) ==
    IF registration_id \notin DOMAIN R
    THEN [exc |-> "none", uri |-> NoURI, uris |-> U, registrations |-> R]
    ELSE LET name == R[registration_id]
             R1 == Del(R, registration_id)
         IN  IF name = <<>>
             THEN [exc |-> "none", uri |-> NoURI, uris |-> U,
                   registrations |-> R1]
             ELSE IF \E other \in DOMAIN R1 : R1[other] = name
             THEN [exc |-> "KeyError", uri |-> NoURI, uris |-> U,
                   registrations |-> R1]
             ELSE IF name \notin DOMAIN U
             THEN [exc |-> "KeyError", uri |-> NoURI, uris |-> U,
                   registrations |-> R1]
             ELSE [exc |-> "none", uri |-> U[name], uris |-> Del(U, name),
                   registrations |-> R1]

\* URIManager.disconnect
disconnect(U, handler) ==
    LET after(name) == URI_disconnect(U[name], handler)
    IN  [name \in {n \in DOMAIN U : URI_live(after(n))} |-> after(name)]

(***************************************************************************)
(* The legacy registry: a Topic holds a set of subscriber connections and  *)
(* a set of publisher connections; the TopicsManager maps names to Topics, *)
(* created on first reference; a connection's topics map records, per      *)
(* role, the identifier assigned for each topic name.                      *)
(***************************************************************************)
Connections == Handlers

Roles == {"subscriber", "publisher"}

LegacyTopic(name) == [name |-> name, subscriber |-> {}, publisher |-> {}]

\* TopicsManager[name] without creation
manager_get(M, topic_name) ==
    IF topic_name \in DOMAIN M THEN M[topic_name] ELSE LegacyTopic(topic_name)

\* add_subscriber / add_publisher leaving the connection's map alone
manager_add_unrecorded(M, CT, role, topic_name, connection, id) ==
    [manager |-> Put(M, topic_name,
                     [manager_get(M, topic_name) EXCEPT ![role] =
                         @ \cup {connection}]),
     topics |-> CT,
     id |-> id]

\* TopicsManager.add_subscriber / add_publisher
manager_add(M, CT, role, topic_name, connection, id) ==
    [manager |-> Put(M, topic_name,
                     [manager_get(M, topic_name) EXCEPT ![role] =
                         @ \cup {connection}]),
     topics |-> [CT EXCEPT ![connection][role] = Put(@, topic_name, id)],
     id |-> id]

\* TopicsManager.remove_subscriber / remove_publisher
manager_remove(M, CT, role, topic_name, connection) ==
    [manager |-> IF topic_name \in DOMAIN M
                 THEN [M EXCEPT ![topic_name][role] = @ \ {connection}]
                 ELSE M,
     topics |-> [CT EXCEPT ![connection][role] = Del(@, topic_name)]]

\* remove_connection visiting the subscriber sets only
manager_remove_subscriptions(M, connection) ==
    [name \in DOMAIN M |->
        [M[name] EXCEPT !.subscriber = @ \ {connection}]]

\* TopicsManager.remove_connection
manager_remove_connection(M, connection) ==
    [name \in DOMAIN M |->
        [M[name] EXCEPT !.subscriber = @ \ {connection},
                        !.publisher = @ \ {connection}]]

(***************************************************************************)
(* The legacy processors.  The authorization extension point decides       *)
(* (allow, msg); its add_subscriber registers the connection in the legacy *)
(* registry and returns the new identifier; its get_direct_messages builds *)
(* one message per recipient the policy names.                             *)
(***************************************************************************)
SubscribeMessage(value) ==
    [code |-> value[1], request_id |-> value[2], options |-> value[3],
     topic |-> value[4]]

LegacyPublishMessage(value) ==
    [code |-> value[1], request_id |-> value[2], options |-> value[3],
     topic |-> value[4]]

SubscribedMessage(request_id, subscription_id) ==
    [code |-> Code.SUBSCRIBED, request_id |-> request_id,
     subscription_id |-> subscription_id]

\* customize.add_subscriber
customize_add_subscriber(M, CT, topic, connection, id) ==
    manager_add(M, CT, "subscriber", topic, connection, id)

\* customize.get_direct_messages for the recipients the policy names
customize_get_direct_messages(received_message, publication_id, recipients) ==
    [k \in 1 .. Len(recipients) |->
        [to |-> recipients[k], publication_id |-> publication_id,
         topic |-> received_message.topic]]

\* the legacy Processor before process() runs
LegacyProcessor(kind, message, connection) ==
    [Processor_defaults(kind, message, connection) EXCEPT !.constructed = TRUE]

\* SubscribeProcessor.process registering before it looks at the decision
SubscribeProcessor_register_first(self, allow, msg, M, CT, id) ==
    LET received_message == SubscribeMessage(self.message)
        added == customize_add_subscriber(M, CT, received_message.topic,
                                          self.handler, id)
    IN  [self |-> [self EXCEPT !.answer_message =
                      IF allow
                      THEN SubscribedMessage(received_message.request_id,
                                             added.id)
                      ELSE ErrorMessage(received_message.code,
                                        received_message.request_id,
                                        "tornwamp.subscribe.unauthorized",
                                        msg)],
         manager |-> added.manager, topics |-> added.topics, ids |-> 1]

\* SubscribeProcessor.process
SubscribeProcessor_process(self, allow, msg, M, CT, id) ==
    LET received_message == SubscribeMessage(self.message)
        added == customize_add_subscriber(M, CT, received_message.topic,
                                          self.handler, id)
    IN  IF allow
        THEN [self |-> [self EXCEPT !.answer_message =
                           SubscribedMessage(received_message.request_id,
                                             added.id)],
              manager |-> added.manager, topics |-> added.topics, ids |-> 1]
        ELSE [self |-> [self EXCEPT !.answer_message =
                           ErrorMessage(received_message.code,
                                        received_message.request_id,
                                        "tornwamp.subscribe.unauthorized",
                                        msg)],
              manager |-> M, topics |-> CT, ids |-> 0]

\* PublishProcessor.process generating the publication id before it looks
\* at the decision
PublishProcessor_id_first(self, allow, msg, recipients, id) ==
    LET received_message == LegacyPublishMessage(self.message)
    IN  IF allow
        THEN [self |-> [self EXCEPT
                 !.answer_message =
                     PublishedMessage(received_message.request_id, id),
                 !.direct_messages =
                     customize_get_direct_messages(received_message, id,
                                                   recipients)],
              ids |-> 1]
        ELSE [self |-> [self EXCEPT !.answer_message =
                           ErrorMessage(received_message.code,
                                        received_message.request_id,
                                        "tornwamp.publish.unauthorized", msg)],
              ids |-> 1]

\* PublishProcessor.process
PublishProcessor_process(self, allow, msg, recipients, id) ==
    LET received_message == LegacyPublishMessage(self.message)
    IN  IF allow
        THEN [self |-> [self EXCEPT
                 !.answer_message =
                     PublishedMessage(received_message.request_id, id),
                 !.direct_messages =
                     customize_get_direct_messages(received_message, id,
                                                   recipients)],
              ids |-> 1]
        ELSE [self |-> [self EXCEPT !.answer_message =
                           ErrorMessage(received_message.code,
                                        received_message.request_id,
                                        "tornwamp.publish.unauthorized", msg)],
              ids |-> 0]

(***************************************************************************)
(* The record of the last completed call; `deleted` holds the URIs that    *)
(* URIManager.disconnect took out of the name table, as they were.         *)
(***************************************************************************)
Ret(op, name, handler, exc) ==
    [op |-> op, name |-> name, handler |-> handler, exc |-> exc,
     noraise |-> FALSE, uri |-> NoURI, registration_id |-> NoId,
     subscription_id |-> NoId, writes |-> <<>>, purge |-> <<>>,
     callbacks |-> <<>>, msg |-> NoMessage, answer |-> NoMessage,
     uri_type |-> "NONE", deleted |-> {}]

\* create_global_id can still hand out k identifiers up to lim
HasIds(k, lim) == next_id + k - 1 <= lim

NoThread == NoHandler
Threads == Handlers
NoFrame ==
    [op |-> "none", name |-> <<>>, uri_obj |-> NoURI, returnifexists |-> TRUE,
     absent_at_call |-> FALSE, uri |-> NoURI, registration_id |-> NoId,
     exc |-> "none", result |-> NoURI, topic |-> NoURI,
     subscription_id |-> NoId, names |-> {}, live |-> TRUE]

\* the processors, the transports and the legacy registry are not involved
rest_idle ==
    UNCHANGED <<processor, realm, transport, topics_manager, connection_topics,
                client, history>>

threads_idle == UNCHANGED <<lock, pc, frame, candidate>> /\ rest_idle

(***************************************************************************)
(* The operations of URIManager, each a whole call.                        *)
(***************************************************************************)
GetCall(name, noraise) ==
    LET found == get(uris, name, noraise)
    IN  /\ ret' = [Ret("get", name, NoHandler, found.exc)
                     EXCEPT !.uri = found.uri, !.noraise = noraise]
        /\ UNCHANGED <<uris, registrations, next_id, closed>>
        /\ threads_idle

CreateTopicCall(name, reserver, lim) ==
    /\ HasIds(1, lim)
    /\ LET args == create_topic(uris, registrations, name, reserver, next_id)
       IN  /\ uris' = args.uris
           /\ registrations' = args.registrations
           /\ ret' = [Ret(IF reserver = NoHandler THEN "create_topic"
                          ELSE "reserve_topic", name, reserver, args.exc)
                        EXCEPT !.uri = args.uri,
                               !.registration_id = args.registration_id]
    /\ next_id' = next_id + 1
    /\ UNCHANGED closed
    /\ threads_idle

CreateProcedureCall(name, provider_handler, lim) ==
    /\ HasIds(1, lim)
    /\ LET args == create_procedure(uris, registrations, name,
                                    provider_handler, next_id)
       IN  /\ uris' = args.uris
           /\ registrations' = args.registrations
           /\ ret' = [Ret("create_procedure", name, provider_handler, args.exc)
                        EXCEPT !.uri = args.uri,
                               !.registration_id = args.registration_id]
    /\ next_id' = next_id + 1
    /\ UNCHANGED closed
    /\ threads_idle

CreateErrorCall(name, lim) ==
    /\ HasIds(1, lim)
    /\ LET args == create_error(uris, registrations, name, next_id)
       IN  /\ uris' = args.uris
           /\ registrations' = args.registrations
           /\ ret' = [Ret("create_error", name, NoHandler, args.exc)
                        EXCEPT !.uri = args.uri,
                               !.registration_id = args.registration_id]
    /\ next_id' = next_id + 1
    /\ UNCHANGED closed
    /\ threads_idle

RemoveCall(registration_id) ==
    LET out == remove(uris, registrations, registration_id)
    IN  /\ uris' = out.uris
        /\ registrations' = out.registrations
        /\ ret' = [Ret("remove", <<>>, NoHandler, out.exc)
                     EXCEPT !.uri = out.uri,
                            !.registration_id = registration_id]
        /\ UNCHANGED <<next_id, closed>>
        /\ threads_idle

\* URIManager.add_subscriber: create_topic, then Topic.add_subscriber on
\* self.uris[uri.name]
AddSubscriberCall(name, handler, is_function, lim) ==
    /\ HasIds(2, lim)
    /\ LET args == create_topic(uris, registrations, name, NoHandler, next_id)
       IN  IF args.exc # "none"
           THEN /\ uris' = args.uris
                /\ registrations' = args.registrations
                /\ next_id' = next_id + 1
                /\ ret' = Ret("add_subscriber", name, handler, args.exc)
           ELSE /\ uris' = Put(args.uris, args.uri.name,
                               Topic_add_subscriber(args.uris[args.uri.name],
                                   handler, is_function, next_id + 1))
                /\ registrations' = args.registrations
                /\ next_id' = next_id + 2
                /\ ret' = [Ret("add_subscriber", name, handler, "none")
                             EXCEPT !.subscription_id = next_id + 1]
    /\ UNCHANGED closed
    /\ threads_idle

\* URIManager.remove_subscriber: self.uris.get(uri) may be None; after
\* Topic.remove_subscriber, line 159 reads uri.subscriptions and
\* uri.publishers, which a Topic does not have.
RemoveSubscriberCall(name, handler) ==
    /\ IF name \in DOMAIN uris /\ uris[name].uri_type = "TOPIC"
       THEN uris' = Put(uris, name, Topic_remove_subscriber(uris[name], handler))
       ELSE uris' = uris
    /\ ret' = Ret("remove_subscriber", name, handler, "AttributeError")
    /\ UNCHANGED <<registrations, next_id, closed>>
    /\ threads_idle

\* Topic.remove_subscriber called on a registered Topic object
TopicRemoveSubscriberCall(name, handler) ==
    /\ name \in DOMAIN uris
    /\ uris[name].uri_type = "TOPIC"
    /\ uris' = Put(uris, name, Topic_remove_subscriber(uris[name], handler))
    /\ ret' = Ret("Topic.remove_subscriber", name, handler, "none")
    /\ UNCHANGED <<registrations, next_id, closed>>
    /\ threads_idle

DisconnectCall(handler) ==
    /\ uris' = disconnect(uris, handler)
    /\ ret' = [Ret("disconnect", <<>>, handler, "none")
                 EXCEPT !.deleted =
                     {uris[n] : n \in DOMAIN uris \ DOMAIN disconnect(uris, handler)}]
    /\ UNCHANGED <<registrations, next_id, closed>>
    /\ threads_idle

\* URIManager.publish: a request id, the lookup, then Topic.publish with its
\* publication id.  Only a Topic is known to have a publish method.
PublishCall(name, origin_handler, lim) ==
    /\ HasIds(2, lim)
    /\ LET found == get(uris, name, TRUE)
       IN  IF found.exc # "none" \/ found.uri = NoURI
           THEN /\ uris' = uris
                /\ next_id' = next_id + 1
                /\ ret' = Ret("publish", name, origin_handler, found.exc)
           ELSE IF found.uri.uri_type # "TOPIC"
           THEN /\ uris' = uris
                /\ next_id' = next_id + 1
                /\ ret' = Ret("publish", name, origin_handler, "AttributeError")
           ELSE LET sent == Topic_publish(found.uri, origin_handler, closed)
                IN  /\ uris' = Put(uris, name, sent.topic)
                    /\ next_id' = next_id + 2
                    /\ ret' = [Ret("publish", name, origin_handler, "none")
                                 EXCEPT !.writes = sent.writes,
                                        !.purge = sent.purge,
                                        !.callbacks = sent.callbacks]
    /\ UNCHANGED <<registrations, closed>>
    /\ threads_idle

\* Topic.add_subscriber called on a registered Topic object
TopicAddSubscriberCall(name, handler, is_function, lim) ==
    /\ HasIds(1, lim)
    /\ name \in DOMAIN uris
    /\ uris[name].uri_type = "TOPIC"
    /\ uris' = Put(uris, name,
                   Topic_add_subscriber(uris[name], handler, is_function, next_id))
    /\ next_id' = next_id + 1
    /\ ret' = [Ret("Topic.add_subscriber", name, handler, "none")
                 EXCEPT !.subscription_id = next_id]
    /\ UNCHANGED <<registrations, closed>>
    /\ threads_idle

\* Topic.publish called on a registered Topic object
TopicPublishCall(name, origin_handler, broadcast_msg, lim) ==
    /\ HasIds(1, lim)
    /\ name \in DOMAIN uris
    /\ uris[name].uri_type = "TOPIC"
    /\ LET sent == Topic_publish(uris[name], origin_handler, closed)
       IN  /\ uris' = Put(uris, name, sent.topic)
           /\ ret' = [Ret("Topic.publish", name, origin_handler, "none")
                        EXCEPT !.writes = sent.writes, !.purge = sent.purge,
                               !.callbacks = sent.callbacks,
                               !.msg = broadcast_msg,
                               !.answer = Topic_publish_return(sent.topic,
                                                               broadcast_msg)]
    /\ next_id' = next_id + 1
    /\ UNCHANGED <<registrations, closed>>
    /\ threads_idle

\* the peer closes a handler's socket
CloseSocket(handler) ==
    /\ handler \notin closed
    /\ closed' = closed \cup {handler}
    /\ ret' = Ret("on_close", <<>>, handler, "none")
    /\ UNCHANGED <<uris, registrations, next_id>>
    /\ threads_idle

(***************************************************************************)
(* A message arrives on a handler: the processor for its code is           *)
(* constructed.  UnhandledProcessor reads handler.realm, which attach_realm*)
(* sets.                                                                   *)
(***************************************************************************)
ProcessMessage(handler, message, attach_exc) ==
    LET kind == processor_for(Message_code(message))
        built == Processor_init(kind, message, handler, attach_exc)
    IN  /\ kind = "Unhandled" => realm[handler] # NoRealm
        /\ processor' = built.processor
        /\ realm' = IF built.attach = NoRealm THEN realm
                    ELSE [realm EXCEPT ![handler] = built.attach]
        /\ UNCHANGED <<uris, registrations, next_id, closed, ret, lock, pc,
                       frame, candidate, transport, topics_manager,
                       connection_topics,
                       client, history>>

legacy_idle ==
    UNCHANGED <<uris, registrations, closed, lock, pc, frame, candidate,
                processor, realm, transport,
                client, history>>

\* TopicsManager.add_subscriber / add_publisher
LegacyAddCall(role, topic_name, connection, lim) ==
    /\ HasIds(1, lim)
    /\ LET added == manager_add(topics_manager, connection_topics, role,
                                topic_name, connection, next_id)
       IN  /\ topics_manager' = added.manager
           /\ connection_topics' = added.topics
           /\ ret' = [Ret("legacy.add", topic_name, connection, "none")
                        EXCEPT !.uri_type = role, !.subscription_id = added.id]
    /\ next_id' = next_id + 1
    /\ legacy_idle

\* TopicsManager.remove_subscriber / remove_publisher
LegacyRemoveCall(role, topic_name, connection) ==
    /\ LET removed == manager_remove(topics_manager, connection_topics, role,
                                     topic_name, connection)
       IN  /\ topics_manager' = removed.manager
           /\ connection_topics' = removed.topics
    /\ ret' = [Ret("legacy.remove", topic_name, connection, "none")
                 EXCEPT !.uri_type = role]
    /\ UNCHANGED next_id
    /\ legacy_idle

\* TopicsManager.remove_connection
LegacyRemoveConnectionCall(connection) ==
    /\ topics_manager' = manager_remove_connection(topics_manager, connection)
    /\ ret' = Ret("legacy.remove_connection", "", connection, "none")
    /\ UNCHANGED <<next_id, connection_topics>>
    /\ legacy_idle

\* the decision of the authorization extension point, as the last call
Authorization(op, topic, connection, allow, msg) ==
    [Ret(op, topic, connection, "none")
       EXCEPT !.answer = [allow |-> allow, msg |-> msg]]

\* a Subscribe message arrives on a connection: SubscribeProcessor
LegacySubscribe(connection, request_id, topic, allow, msg, lim) ==
    LET self == LegacyProcessor("Subscribe",
                   <<Code.SUBSCRIBE, request_id, EmptyMap, topic>>, connection)
        done == SubscribeProcessor_process(self, allow, msg, topics_manager,
                                           connection_topics, next_id)
    IN  /\ HasIds(1, lim)
        /\ processor' = done.self
        /\ topics_manager' = done.manager
        /\ connection_topics' = done.topics
        /\ next_id' = next_id + done.ids
        /\ ret' = Authorization("authorize_subscription", topic, connection,
                                allow, msg)
        /\ UNCHANGED <<uris, registrations, closed, lock, pc, frame,
                       candidate, realm, transport,
                       client, history>>

\* a Publish message arrives on a connection: PublishProcessor
LegacyPublish(connection, request_id, topic, allow, msg, recipients, lim) ==
    LET self == LegacyProcessor("Publish",
                   <<Code.PUBLISH, request_id, EmptyMap, topic>>, connection)
        done == PublishProcessor_process(self, allow, msg, recipients, next_id)
    IN  /\ HasIds(1, lim)
        /\ processor' = done.self
        /\ next_id' = next_id + done.ids
        /\ ret' = Authorization("authorize_publication", topic, connection,
                                allow, msg)
        /\ UNCHANGED <<uris, registrations, closed, lock, pc, frame,
                       candidate, realm, transport, topics_manager,
                       connection_topics,
                       client, history>>

\* Transport.zombify on a handler's transport; now is datetime.now()
Zombify(handler, now) ==
    /\ transport' = [transport EXCEPT ![handler] =
                        [zombie |-> TRUE, zombification_datetime |-> now]]
    /\ UNCHANGED <<uris, registrations, next_id, closed, ret, lock, pc, frame,
                   candidate, processor, realm, topics_manager,
                   connection_topics,
                   client, history>>

(***************************************************************************)
(* LocalTransport: the in-process transport of a local client.  The client *)
(* owns two unbounded first-in first-out queues, message_queue_in (server  *)
(* to client) and message_queue_out (client to server); messages pass by   *)
(* reference, with no encoding.                                            *)
(***************************************************************************)
\* queue.put(item)
Queue_put(queue, item) == Append(queue, item)

\* queue.get() on a queue that holds an item; the caller waits on an empty one
Queue_get(queue) == [item |-> Head(queue), queue |-> Tail(queue)]

\* the client before any message
NewClient == [message_queue_in |-> <<>>, message_queue_out |-> <<>>]

\* LocalTransport.write_message putting on the client's outbound queue
write_message_outbound(c, msg) ==
    [c EXCEPT !.message_queue_out = Queue_put(@, msg)]

\* LocalTransport.write_message
write_message(c, msg) ==
    [c EXCEPT !.message_queue_in = Queue_put(@, msg)]

\* LocalTransport.read_message
read_message(c) ==
    LET got == Queue_get(c.message_queue_out)
    IN  [msg |-> got.item,
         client |-> [c EXCEPT !.message_queue_out = got.queue]]

\* LocalTransport.receive_message
receive_message(c) ==
    LET got == Queue_get(c.message_queue_in)
    IN  [msg |-> got.item,
         client |-> [c EXCEPT !.message_queue_in = got.queue]]

\* the client places a message for the server on its outbound queue
client_put(c, msg) ==
    [c EXCEPT !.message_queue_out = Queue_put(@, msg)]

\* nothing written, received, placed or read yet
NoHistory ==
    [written |-> <<>>, received |-> <<>>, placed |-> <<>>, read |-> <<>>]

\* the registry, the threads and the processors are not involved
transport_idle ==
    UNCHANGED <<uris, registrations, next_id, closed, ret, lock, pc, frame,
                candidate, processor, realm, transport, topics_manager,
                connection_topics>>

\* the server calls write_message(msg)
WriteMessage(msg) ==
    /\ Len(history.written) < MaxMessages
    /\ client' = write_message(client, msg)
    /\ history' = [history EXCEPT !.written = Append(@, msg)]
    /\ transport_idle

\* the client calls receive_message(); get() waits while the queue is empty
ReceiveMessage ==
    /\ client.message_queue_in # <<>>
    /\ client' = receive_message(client).client
    /\ history' = [history EXCEPT
                     !.received = Append(@, receive_message(client).msg)]
    /\ transport_idle

\* the client puts msg on message_queue_out
ClientPut(msg) ==
    /\ Len(history.placed) < MaxMessages
    /\ client' = client_put(client, msg)
    /\ history' = [history EXCEPT !.placed = Append(@, msg)]
    /\ transport_idle

\* the server calls read_message(); get() waits while the queue is empty
ReadMessage ==
    /\ client.message_queue_out # <<>>
    /\ client' = read_message(client).client
    /\ history' = [history EXCEPT !.read = Append(@, read_message(client).msg)]
    /\ transport_idle

\* what the server sends to a client, and what a client sends to the server
ServerMessages == {[code |-> Code.WELCOME], [code |-> Code.EVENT]}
ClientMessages == {[code |-> Code.HELLO], [code |-> Code.PUBLISH]}

(***************************************************************************)
(* Before any message is processed: no processor, no realm attached, no    *)
(* transport zombified, an empty legacy registry.                          *)
(***************************************************************************)
InitRest ==
    /\ processor = NoProcessor
    /\ realm = [h \in Handlers |-> NoRealm]
    /\ transport = [h \in Handlers |-> NewTransport]
    /\ topics_manager = EmptyMap
    /\ connection_topics = [c \in Handlers |-> NoTopics]
    /\ client = NewClient
    /\ history = NoHistory

(***************************************************************************)
(* The sequential specification: registry calls arrive one at a time.      *)
(***************************************************************************)
Names == {<<"a">>, ErrorNames[3]}

IdLimit == FirstFreeId + IdBudget - 1

Init ==
    /\ uris = Constructed.uris
    /\ registrations = Constructed.registrations
    /\ next_id = FirstFreeId
    /\ closed = {}
    /\ ret = Ret("init", <<>>, NoHandler, "none")
    /\ lock = [owner |-> NoThread, count |-> 0]
    /\ pc = [t \in Threads |-> "idle"]
    /\ frame = [t \in Threads |-> NoFrame]
    /\ candidate = <<>>
    /\ InitRest

Next ==
    \/ \E name \in Names, reserver \in Handlers \cup {NoHandler} :
          CreateTopicCall(name, reserver, IdLimit)
    \/ \E name \in Names, h \in Handlers : CreateProcedureCall(name, h, IdLimit)
    \/ \E name \in Names : CreateErrorCall(name, IdLimit)
    \/ \E rid \in FirstFreeId .. IdLimit : RemoveCall(rid)
    \/ \E name \in Names, h \in Handlers :
          AddSubscriberCall(name, h, FALSE, IdLimit)
    \/ \E name \in Names, h \in Handlers : RemoveSubscriberCall(name, h)
    \/ \E h \in Handlers : DisconnectCall(h)

Spec == Init /\ [][Next]_vars

(***************************************************************************)
(* Topic calls on names that may be taken by another kind of URI, and      *)
(* disconnect: the calls that create, reserve, subscribe to and collect    *)
(* topics.                                                                 *)
(***************************************************************************)
NextCollect ==
    \/ \E name \in Names, reserver \in Handlers \cup {NoHandler} :
          CreateTopicCall(name, reserver, FirstFreeId + CollectIdBudget - 1)
    \/ \E name \in Names, h \in Handlers :
          CreateProcedureCall(name, h, FirstFreeId + CollectIdBudget - 1)
    \/ \E name \in Names, h \in Handlers :
          AddSubscriberCall(name, h, FALSE, FirstFreeId + CollectIdBudget - 1)
    \/ \E h \in Handlers : DisconnectCall(h)

SpecCollect == Init /\ [][NextCollect]_vars

(***************************************************************************)
(* One Topic object, registered under TopicName, and the calls of its own  *)
(* methods.                                                                *)
(***************************************************************************)
TopicName == <<"a">>

TopicIdLimit == FirstFreeId + TopicIdBudget

InitTopic ==
    LET made == create_topic(Constructed.uris, Constructed.registrations,
                             TopicName, NoHandler, FirstFreeId)
    IN  /\ uris = made.uris
        /\ registrations = made.registrations
        /\ next_id = FirstFreeId + 1
        /\ closed = {}
        /\ ret = [Ret("create_topic", TopicName, NoHandler, made.exc)
                    EXCEPT !.uri = made.uri,
                           !.registration_id = made.registration_id]
        /\ lock = [owner |-> NoThread, count |-> 0]
        /\ pc = [t \in Threads |-> "idle"]
        /\ frame = [t \in Threads |-> NoFrame]
        /\ candidate = <<>>
    /\ InitRest

\* a publication that sets no option
PlainMessage == PublishMessage(NoId, EmptyMap)

NextTopic ==
    \/ \E h \in Handlers :
          TopicAddSubscriberCall(TopicName, h, FALSE, TopicIdLimit)
    \/ TopicAddSubscriberCall(TopicName, NoHandler, TRUE, TopicIdLimit)
    \/ \E h \in Handlers : TopicRemoveSubscriberCall(TopicName, h)
    \/ \E origin \in Handlers \cup {NoHandler} :
          TopicPublishCall(TopicName, origin, PlainMessage, TopicIdLimit)
    \/ \E h \in Handlers : CloseSocket(h)

SpecTopic == InitTopic /\ [][NextTopic]_vars

(***************************************************************************)
(* The router's processors: Hello, Goodbye and unrecognized messages       *)
(* arrive on the handlers in any order.                                    *)
(***************************************************************************)
Realms == {"realm1", "realm2"}

AttachErrors == {"no_such_realm", "not_authorized"}

UnrecognizedCodes == {0, 7, 99}

GoodbyeDetails == {EmptyMap, OptionsOf("message", "bye")}

GoodbyeReasons == {"wamp.close.goodbye_and_out", "wamp.close.close_realm"}

NextProc ==
    \/ \E h \in Handlers, name \in Realms,
          attach_exc \in {"none"} \cup AttachErrors :
          ProcessMessage(h, <<Code.HELLO, name>>, attach_exc)
    \/ \E h \in Handlers, details \in GoodbyeDetails,
          reason \in GoodbyeReasons :
          ProcessMessage(h, <<Code.GOODBYE, details, reason>>, "none")
    \/ \E h \in Handlers, code \in UnrecognizedCodes, id \in RequestIds :
          ProcessMessage(h, <<code, id>>, "none")

SpecProc == Init /\ [][NextProc]_vars

(***************************************************************************)
(* Zombification: transports are zombified while handlers subscribe to a   *)
(* topic and publications are fanned out.                                  *)
(***************************************************************************)
Times == 1 .. NumTimes

ZombieIdLimit == FirstFreeId + ZombieIdBudget

NextZombie ==
    \/ \E h \in Handlers :
          TopicAddSubscriberCall(TopicName, h, FALSE, ZombieIdLimit)
    \/ \E origin \in Handlers \cup {NoHandler} :
          TopicPublishCall(TopicName, origin, PlainMessage, ZombieIdLimit)
    \/ \E h \in Handlers, now \in Times : Zombify(h, now)

SpecZombie == InitTopic /\ [][NextZombie]_vars

(***************************************************************************)
(* The legacy registry: connections are added to and removed from topics   *)
(* in both roles, and removed altogether.                                  *)
(***************************************************************************)
LegacyTopicNames == {"romania", "gernsheim"}

LegacyIdLimit == FirstFreeId + LegacyIdBudget - 1

NextLegacy ==
    \/ \E role \in Roles, name \in LegacyTopicNames, c \in Connections :
          LegacyAddCall(role, name, c, LegacyIdLimit)
    \/ \E role \in Roles, name \in LegacyTopicNames, c \in Connections :
          LegacyRemoveCall(role, name, c)
    \/ \E c \in Connections : LegacyRemoveConnectionCall(c)

SpecLegacy == Init /\ [][NextLegacy]_vars

\* connections join topics and are removed altogether
LegacyConnIdLimit == FirstFreeId + LegacyConnIdBudget - 1

NextLegacyConn ==
    \/ \E role \in Roles, name \in LegacyTopicNames, c \in Connections :
          LegacyAddCall(role, name, c, LegacyConnIdLimit)
    \/ \E c \in Connections : LegacyRemoveConnectionCall(c)

SpecLegacyConn == Init /\ [][NextLegacyConn]_vars

(***************************************************************************)
(* The legacy processors: Subscribe and Publish messages arrive on the     *)
(* connections and the authorization policy allows or denies each.         *)
(***************************************************************************)
PubSubIdLimit == FirstFreeId + PubSubIdBudget - 1

\* (allowed, reason) pairs an authorization policy returns
Decisions == {<<TRUE, "">>, <<FALSE, "denied">>}

\* recipient lists a policy's get_direct_messages names
Recipients == {<<>>} \cup {<<c>> : c \in Connections}

NextPubSub ==
    \/ \E c \in Connections, request_id \in RequestIds,
          topic \in LegacyTopicNames, decision \in Decisions :
          LegacySubscribe(c, request_id, topic, decision[1], decision[2],
                          PubSubIdLimit)
    \/ \E c \in Connections, request_id \in RequestIds,
          topic \in LegacyTopicNames, decision \in Decisions,
          recipients \in Recipients :
          LegacyPublish(c, request_id, topic, decision[1], decision[2],
                        recipients, PubSubIdLimit)

SpecPubSub == Init /\ [][NextPubSub]_vars

(***************************************************************************)
(* Acknowledged publication: Topic.publish receives broadcast messages     *)
(* whose options set acknowledge, set it to false, set a misspelt field,   *)
(* or set nothing.                                                         *)
(***************************************************************************)
AckOptions ==
    {EmptyMap, OptionsOf("acknowledge", TRUE), OptionsOf("acknowledge", FALSE),
     OptionsOf("acknowlege", TRUE)}

AckIdLimit == FirstFreeId + AckIdBudget

NextAck ==
    \/ \E h \in Handlers :
          TopicAddSubscriberCall(TopicName, h, FALSE, AckIdLimit)
    \/ \E origin \in Handlers \cup {NoHandler}, request_id \in RequestIds,
          options \in AckOptions :
          TopicPublishCall(TopicName, origin,
                           PublishMessage(request_id, options), AckIdLimit)

SpecAck == InitTopic /\ [][NextAck]_vars

(***************************************************************************)
(* Name validation: a candidate name is drawn from every string of at most *)
(* MaxNameLen characters, and the calls that take a name are applied to it.*)
(***************************************************************************)
NameChars == {"a", "_", ".", "A", "\n"}

AllNames == UNION {[1 .. k -> NameChars] : k \in 0 .. MaxNameLen}

NameIdLimit == FirstFreeId + NameIdBudget - 1

InitNames ==
    /\ uris = Constructed.uris
    /\ registrations = Constructed.registrations
    /\ next_id = FirstFreeId
    /\ closed = {}
    /\ ret = Ret("init", <<>>, NoHandler, "none")
    /\ lock = [owner |-> NoThread, count |-> 0]
    /\ pc = [t \in Threads |-> "idle"]
    /\ frame = [t \in Threads |-> NoFrame]
    /\ candidate \in AllNames
    /\ InitRest

NextNames ==
    \/ \E noraise \in BOOLEAN : GetCall(candidate, noraise)
    \/ CreateTopicCall(candidate, NoHandler, NameIdLimit)
    \/ \E h \in Handlers : AddSubscriberCall(candidate, h, FALSE, NameIdLimit)
    \/ \E origin \in Handlers \cup {NoHandler} :
          PublishCall(candidate, origin, NameIdLimit)

SpecNames == InitNames /\ [][NextNames]_vars

(***************************************************************************)
(* Concurrent handlers inside URIManager.create.  Each thread runs the     *)
(* statements of create() one at a time; the interpreter may switch        *)
(* threads between any two of them.                                        *)
(***************************************************************************)
\* a lock that never makes a caller wait
lock_never_held(t) == TRUE

\* RLock.acquire returns when the lock is free or already owned by the caller
lock_available(t) == lock.owner \in {NoThread, t}

others_idle == UNCHANGED <<closed, ret, candidate>> /\ rest_idle

\* the caller builds the URI object (a fresh registration id) and enters create()
Call(t, op, name, lim) ==
    /\ pc[t] \in {"idle", "done"}
    /\ HasIds(1, lim)
    /\ frame' = [frame EXCEPT ![t] =
          [NoFrame EXCEPT
             !.op = op, !.name = name,
             !.uri_obj = IF op = "create_topic"
                         THEN Topic(name, NoHandler, next_id)
                         ELSE Procedure(name, t, next_id),
             !.returnifexists = (op = "create_topic"),
             !.absent_at_call = (name \notin DOMAIN uris)]]
    /\ next_id' = next_id + 1
    /\ pc' = [pc EXCEPT ![t] = "acquire"]
    /\ UNCHANGED <<uris, registrations, lock>>
    /\ others_idle

\* line 78: self.lock.acquire()
Acquire(t) ==
    /\ pc[t] = "acquire"
    /\ lock_available(t)
    /\ lock' = [owner |-> t, count |-> lock.count + 1]
    /\ pc' = [pc EXCEPT ![t] = "lookup"]
    /\ UNCHANGED <<uris, registrations, next_id, frame>>
    /\ others_idle

\* lines 80-91: the lookup and the branch it selects
Lookup(t) ==
    /\ pc[t] = "lookup"
    /\ LET found == get(uris, frame[t].name, TRUE)
       IN  IF found.exc # "none"
           THEN /\ frame' = [frame EXCEPT ![t].exc = found.exc]
                /\ pc' = [pc EXCEPT ![t] = "release"]
           ELSE IF found.uri = NoURI
           THEN /\ frame' = frame
                /\ pc' = [pc EXCEPT ![t] = "store_uri"]
           ELSE IF frame[t].returnifexists
           THEN /\ frame' = [frame EXCEPT
                               ![t].result = found.uri,
                               ![t].registration_id = found.uri.registration_id]
                /\ pc' = [pc EXCEPT ![t] = "release"]
           ELSE /\ frame' = [frame EXCEPT ![t].exc = "procedure_already_exists"]
                /\ pc' = [pc EXCEPT ![t] = "release"]
    /\ UNCHANGED <<uris, registrations, next_id, lock>>
    /\ others_idle

\* line 84: self.uris[name] = uri_obj
StoreUri(t) ==
    /\ pc[t] = "store_uri"
    /\ uris' = Put(uris, frame[t].name, frame[t].uri_obj)
    /\ pc' = [pc EXCEPT ![t] = "read_id"]
    /\ UNCHANGED <<registrations, next_id, lock, frame>>
    /\ others_idle

\* line 85: registration_id = self.uris[name].registration_id; the lookup
\* raises KeyError when the entry was deleted meanwhile, by a caller that
\* does not take the lock (disconnect), and control goes to the finally
ReadId(t) ==
    /\ pc[t] = "read_id"
    /\ IF frame[t].name \in DOMAIN uris
       THEN /\ frame' = [frame EXCEPT
                  ![t].registration_id = uris[frame[t].name].registration_id]
            /\ pc' = [pc EXCEPT ![t] = "store_reg"]
       ELSE /\ frame' = [frame EXCEPT ![t].exc = "KeyError"]
            /\ pc' = [pc EXCEPT ![t] = "release"]
    /\ UNCHANGED <<uris, registrations, next_id, lock>>
    /\ others_idle

\* line 86: self.registrations[registration_id] = name
StoreReg(t) ==
    /\ pc[t] = "store_reg"
    /\ registrations' = Put(registrations, frame[t].registration_id, frame[t].name)
    /\ pc' = [pc EXCEPT ![t] = "return"]
    /\ UNCHANGED <<uris, next_id, lock, frame>>
    /\ others_idle

\* line 87: return self.uris[name], registration_id (KeyError as in line 85)
Return(t) ==
    /\ pc[t] = "return"
    /\ frame' = IF frame[t].name \in DOMAIN uris
                THEN [frame EXCEPT ![t].result = uris[frame[t].name]]
                ELSE [frame EXCEPT ![t].exc = "KeyError"]
    /\ pc' = [pc EXCEPT ![t] = "release"]
    /\ UNCHANGED <<uris, registrations, next_id, lock>>
    /\ others_idle

\* line 93: finally: self.lock.release(); then, in create_topic, the type
\* check of line 102 on the returned URI; add_subscriber goes on to line 145
Release(t) ==
    /\ pc[t] = "release"
    /\ lock' = IF lock.owner # t THEN lock
               ELSE IF lock.count > 1
               THEN [lock EXCEPT !.count = @ - 1]
               ELSE [owner |-> NoThread, count |-> 0]
    /\ frame' = IF /\ frame[t].op \in {"create_topic", "add_subscriber"}
                   /\ frame[t].exc = "none"
                   /\ frame[t].result.uri_type # "TOPIC"
                THEN [frame EXCEPT ![t].exc = "no_such_subscription"]
                ELSE frame
    /\ pc' = [pc EXCEPT ![t] =
                 IF frame[t].op = "add_subscriber" /\ frame'[t].exc = "none"
                 THEN "attach" ELSE "done"]
    /\ UNCHANGED <<uris, registrations, next_id>>
    /\ others_idle

ConcNames == {<<"a">>, <<"b">>}

ConcIdLimit == FirstFreeId + ConcIdBudget - 1

NextConc ==
    \E t \in Threads :
        \/ \E op \in {"create_topic", "create_procedure"}, name \in ConcNames :
              Call(t, op, name, ConcIdLimit)
        \/ Acquire(t)
        \/ Lookup(t)
        \/ StoreUri(t)
        \/ ReadId(t)
        \/ StoreReg(t)
        \/ Return(t)
        \/ Release(t)

SpecConc == Init /\ [][NextConc]_vars

(***************************************************************************)
(* URIManager.add_subscriber and URIManager.disconnect statement by        *)
(* statement.  add_subscriber runs create_topic (the steps above, under    *)
(* the lock) and then, holding no lock, looks the topic up again and adds  *)
(* the subscriber to it; disconnect takes no lock at all.  A URI object is *)
(* identified by the registration id its constructor drew: a thread that   *)
(* holds a reference to an object that is no longer in `uris` changes its  *)
(* own copy (frame.topic), not the table.                                  *)
(***************************************************************************)
\* lines 141-144: create_topic(uri_name) builds the Topic and calls create
CallAddSubscriber(t, name, lim) ==
    /\ pc[t] \in {"idle", "done"}
    /\ LET \* calls that have not drawn their subscription id yet
           attaching ==
               Cardinality({u \in Threads : /\ frame[u].op = "add_subscriber"
                                            /\ pc[u] \notin {"idle", "done"}})
       IN  HasIds(2 + attaching, lim)
    /\ frame' = [frame EXCEPT ![t] =
          [NoFrame EXCEPT
             !.op = "add_subscriber", !.name = name,
             !.uri_obj = Topic(name, NoHandler, next_id),
             !.returnifexists = TRUE,
             !.absent_at_call = (name \notin DOMAIN uris)]]
    /\ next_id' = next_id + 1
    /\ pc' = [pc EXCEPT ![t] = "acquire"]
    /\ UNCHANGED <<uris, registrations, lock>>
    /\ others_idle

\* line 145, left part: self.uris[uri.name]
LookupTopic(t) ==
    /\ pc[t] = "attach"
    /\ IF frame[t].result.name \in DOMAIN uris
       THEN /\ frame' = [frame EXCEPT ![t].topic = uris[frame[t].result.name]]
            /\ pc' = [pc EXCEPT ![t] = "add"]
       ELSE /\ frame' = [frame EXCEPT ![t].exc = "KeyError"]
            /\ pc' = [pc EXCEPT ![t] = "done"]
    /\ UNCHANGED <<uris, registrations, next_id, lock>>
    /\ others_idle

\* line 145, right part, and line 147: .add_subscriber(handler) on that object
AddToTopic(t) ==
    /\ pc[t] = "add"
    /\ LET name == frame[t].topic.name
           registered ==
               /\ name \in DOMAIN uris
               /\ uris[name].registration_id = frame[t].topic.registration_id
           object == IF registered THEN uris[name] ELSE frame[t].topic
           added == Topic_add_subscriber(object, t, FALSE, next_id)
       IN  /\ uris' = IF registered THEN Put(uris, name, added) ELSE uris
           /\ frame' = [frame EXCEPT ![t].topic = added,
                                     ![t].subscription_id = next_id]
    /\ next_id' = next_id + 1
    /\ pc' = [pc EXCEPT ![t] = "done"]
    /\ UNCHANGED <<registrations, lock>>
    /\ others_idle

\* line 166: for name in list(self.uris.keys())
CallDisconnect(t) ==
    /\ pc[t] \in {"idle", "done"}
    /\ frame' = [frame EXCEPT ![t] =
          [NoFrame EXCEPT !.op = "disconnect", !.names = DOMAIN uris]]
    /\ pc' = [pc EXCEPT ![t] = "next_name"]
    /\ UNCHANGED <<uris, registrations, next_id, lock>>
    /\ others_idle

\* line 167: self.uris[name].disconnect(handler) for the next name
DisconnectUri(t) ==
    /\ pc[t] = "next_name"
    /\ \E name \in frame[t].names :
          IF name \in DOMAIN uris
          THEN /\ uris' = Put(uris, name, URI_disconnect(uris[name], t))
               /\ frame' = [frame EXCEPT ![t].name = name,
                                         ![t].names = @ \ {name}]
               /\ pc' = [pc EXCEPT ![t] = "check_live"]
          ELSE /\ uris' = uris
               /\ frame' = [frame EXCEPT ![t].name = name,
                                         ![t].names = @ \ {name},
                                         ![t].exc = "KeyError"]
               /\ pc' = [pc EXCEPT ![t] = "done"]
    /\ UNCHANGED <<registrations, next_id, lock>>
    /\ others_idle

\* line 168: if not self.uris[name].live
CheckLive(t) ==
    /\ pc[t] = "check_live"
    /\ IF frame[t].name \in DOMAIN uris
       THEN /\ frame' = [frame EXCEPT
                           ![t].live = URI_live(uris[frame[t].name])]
            /\ pc' = [pc EXCEPT ![t] =
                         IF URI_live(uris[frame[t].name])
                         THEN "next_name" ELSE "delete"]
       ELSE /\ frame' = [frame EXCEPT ![t].exc = "KeyError"]
            /\ pc' = [pc EXCEPT ![t] = "done"]
    /\ UNCHANGED <<uris, registrations, next_id, lock>>
    /\ others_idle

\* line 169: del self.uris[name]
DeleteUri(t) ==
    /\ pc[t] = "delete"
    /\ IF frame[t].name \in DOMAIN uris
       THEN /\ uris' = Del(uris, frame[t].name)
            /\ frame' = frame
            /\ pc' = [pc EXCEPT ![t] = "next_name"]
       ELSE /\ uris' = uris
            /\ frame' = [frame EXCEPT ![t].exc = "KeyError"]
            /\ pc' = [pc EXCEPT ![t] = "done"]
    /\ UNCHANGED <<registrations, next_id, lock>>
    /\ others_idle

\* lines 171-172: the loop is over and the call returns
DisconnectReturn(t) ==
    /\ pc[t] = "next_name"
    /\ frame[t].names = {}
    /\ pc' = [pc EXCEPT ![t] = "done"]
    /\ UNCHANGED <<uris, registrations, next_id, lock, frame>>
    /\ others_idle

RaceIdLimit == FirstFreeId + RaceIdBudget - 1

NextRace ==
    \E t \in Threads :
        \/ \E name \in {<<"a">>} : CallAddSubscriber(t, name, RaceIdLimit)
        \/ Acquire(t)
        \/ Lookup(t)
        \/ StoreUri(t)
        \/ ReadId(t)
        \/ StoreReg(t)
        \/ Return(t)
        \/ Release(t)
        \/ LookupTopic(t)
        \/ AddToTopic(t)
        \/ CallDisconnect(t)
        \/ DisconnectUri(t)
        \/ CheckLive(t)
        \/ DeleteUri(t)
        \/ DisconnectReturn(t)

SpecRace == Init /\ [][NextRace]_vars

(***************************************************************************)
(* The loopback transport between the server and one local client.         *)
(***************************************************************************)
NextLoopback ==
    \/ \E msg \in ServerMessages : WriteMessage(msg)
    \/ ReceiveMessage
    \/ \E msg \in ClientMessages : ClientPut(msg)
    \/ ReadMessage

SpecLoopback == Init /\ [][NextLoopback]_vars

(***************************************************************************)
(* Helpers of the properties.                                              *)
(***************************************************************************)
\* the registration ids that map to name
registrations_of(R, name) == {rid \in DOMAIN R : R[rid] = name}

\* the subscribers of a topic that are backed by handler
backed_by(topic, handler) ==
    {i \in 1 .. Len(topic.subscribers) :
        /\ ~topic.subscribers[i].pseudo
        /\ topic.subscribers[i].handler = handler}

\* how many Events a publish wrote for one subscription
writes_for(writes, subscription_id) ==
    Cardinality({k \in 1 .. Len(writes) :
                    writes[k].subscription_id = subscription_id})

seq_range(q) == {q[k] : k \in 1 .. Len(q)}

\* a real subscriber on the publishing connection's own session
own_session(sub, origin) ==
    /\ origin # NoHandler
    /\ ~sub.pseudo
    /\ sessionid_of(sub.handler) = sessionid_of(origin)

\* the naming rule: one or more segments of lowercase letters, digits or
\* underscores, joined by single dots
Conforms(s) ==
    /\ Len(s) >= 1
    /\ \A i \in 1 .. Len(s) : s[i] \in WordChars \cup {"."}
    /\ s[1] # "."
    /\ s[Len(s)] # "."
    /\ \A i \in 1 .. Len(s) - 1 : ~(s[i] = "." /\ s[i + 1] = ".")

(***************************************************************************)
(* C1.  After any sequence of registry calls the two tables agree: every   *)
(* registration id maps to a name that is a key of uris, and every name in *)
(* uris has its URI's registration id registered under that name.          *)
(* URIManager.disconnect deletes from uris only, so this does not hold.    *)
(***************************************************************************)
C1_TablesAgree ==
    /\ \A rid \in DOMAIN registrations : registrations[rid] \in DOMAIN uris
    /\ \A name \in DOMAIN uris :
          /\ uris[name].registration_id \in DOMAIN registrations
          /\ registrations[uris[name].registration_id] = name

(***************************************************************************)
(* C2.  Two handlers that call create concurrently for the same name,      *)
(* absent when each call began: once both have returned, exactly one of    *)
(* them inserted its object, the name has one URI object and one           *)
(* registration entry, and with create_procedure the other caller raised   *)
(* procedure_already_exists.                                               *)
(***************************************************************************)
inserted(t) == frame[t].exc = "none" /\ frame[t].result = frame[t].uri_obj

racing(t1, t2) ==
    /\ t1 # t2
    /\ pc[t1] = "done" /\ pc[t2] = "done"
    /\ frame[t1].name = frame[t2].name
    /\ frame[t1].absent_at_call /\ frame[t2].absent_at_call
    /\ \A t \in Threads \ {t1, t2} : pc[t] = "idle"

C2_CreateExclusive ==
    \A t1 \in Threads, t2 \in Threads :
        racing(t1, t2) =>
            LET name == frame[t1].name IN
            /\ inserted(t1) # inserted(t2)
            /\ name \in DOMAIN uris
            /\ uris[name] \in {frame[t1].uri_obj, frame[t2].uri_obj}
            /\ registrations_of(registrations, name)
                  = {uris[name].registration_id}
            /\ \A t \in {t1, t2} :
                  (frame[t].op = "create_procedure" /\ ~inserted(t))
                      => frame[t].exc = "procedure_already_exists"

C2_Witness ==
    \E t1 \in Threads, t2 \in Threads :
        /\ racing(t1, t2)
        /\ frame[t1].op = "create_procedure"
        /\ frame[t2].op = "create_procedure"
        /\ inserted(t1)
        /\ frame[t2].exc = "procedure_already_exists"

(***************************************************************************)
(* C3.  create_topic (with or without a reserver) on a name that is        *)
(* already a Topic returns that same Topic object and its registration id, *)
(* and changes neither table: no entry is added, and the subscribers and   *)
(* the reserver of the existing topic stay as they were.                   *)
(***************************************************************************)
C3_CreateTopicIdempotent ==
    [][\A name \in Names :
          ( /\ ret'.op \in {"create_topic", "reserve_topic"}
            /\ ret'.name = name
            /\ name \in DOMAIN uris
            /\ uris[name].uri_type = "TOPIC" )
          => /\ ret'.exc = "none"
             /\ ret'.uri = uris[name]
             /\ ret'.registration_id = uris[name].registration_id
             /\ uris' = uris
             /\ registrations' = registrations]_vars

\* a second create_topic returned an existing topic that has a reserver and
\* a subscriber
C3_Witness ==
    /\ ret.op = "create_topic"
    /\ ret.exc = "none"
    /\ ret.registration_id # next_id - 1
    /\ ret.uri.reserver # NoHandler
    /\ Len(ret.uri.subscribers) > 0
    /\ uris[ret.name] = ret.uri

(***************************************************************************)
(* C4.  create_procedure on a name that is already registered raises       *)
(* procedure_already_exists and changes neither table.                     *)
(***************************************************************************)
C4_ProcedureUnique ==
    [][\A name \in Names :
          ( /\ ret'.op = "create_procedure"
            /\ ret'.name = name
            /\ name \in DOMAIN uris )
          => /\ ret'.exc = "procedure_already_exists"
             /\ uris' = uris
             /\ registrations' = registrations]_vars

\* a second create_procedure was refused and the first provider is still
\* the registered one
C4_Witness ==
    /\ ret.op = "create_procedure"
    /\ ret.exc = "procedure_already_exists"
    /\ ret.name \in DOMAIN uris
    /\ uris[ret.name].uri_type = "PROCEDURE"
    /\ uris[ret.name].provider # ret.handler

(***************************************************************************)
(* C5.  Name validation: get (also with noraise), create_topic,            *)
(* add_subscriber and publish raise invalid_uri for every name that does   *)
(* not follow the naming rule and leave both tables as they were; a name   *)
(* that follows the rule is never refused with invalid_uri.                *)
(* The pattern's "$" also matches before a final newline, so a conforming  *)
(* name followed by a newline is accepted.                                 *)
(***************************************************************************)
C5_NameValidation ==
    /\ ret.op \in {"get", "create_topic", "add_subscriber", "publish"}
          => IF Conforms(ret.name)
             THEN ret.exc # "invalid_uri"
             ELSE ret.exc = "invalid_uri"
    /\ ~Conforms(candidate)
          => /\ uris = Constructed.uris
             /\ registrations = Constructed.registrations

(***************************************************************************)
(* C6.  URIManager.remove_subscriber(name, h) for the only subscriber of a *)
(* topic completes normally and leaves the topic out of the registry:      *)
(* get(name, noraise=true) is absent and no registration id maps to name.  *)
(* The call looks the subscriber up by session id, then reads attributes a *)
(* Topic does not have, so it neither removes nor returns.                 *)
(***************************************************************************)
C6_EmptyTopicCollected ==
    [][\A name \in Names, h \in Handlers :
          ( /\ ret'.op = "remove_subscriber"
            /\ ret'.name = name
            /\ ret'.handler = h
            /\ name \in DOMAIN uris
            /\ uris[name].uri_type = "TOPIC"
            /\ Len(uris[name].subscribers) = 1
            /\ backed_by(uris[name], h) = {1} )
          => /\ ret'.exc = "none"
             /\ get(uris', name, TRUE).uri = NoURI
             /\ registrations_of(registrations', name) = {}]_vars

(***************************************************************************)
(* C7.  After Topic.add_subscriber(h) and Topic.remove_subscriber(h) the   *)
(* subscriber table holds no Subscriber backed by h.                       *)
(* The table is keyed by subscription id and the removal looks up the      *)
(* session id, so the Subscriber stays.                                    *)
(***************************************************************************)
C7_RemoveSubscriberRemoves ==
    ret.op = "Topic.remove_subscriber"
        => backed_by(uris[ret.name], ret.handler) = {}

(***************************************************************************)
(* C8.  After URIManager.disconnect(h), h is the reserver of no topic and  *)
(* no topic's subscriber table contains a Subscriber backed by h.          *)
(* Topic.disconnect relies on Topic.remove_subscriber (C7).                *)
(***************************************************************************)
C8_DisconnectDropsRoles ==
    ret.op = "disconnect"
        => \A name \in DOMAIN uris :
              /\ uris[name].reserver # ret.handler
              /\ backed_by(uris[name], ret.handler) = {}

(***************************************************************************)
(* C9.  Self-exclusion on fan-out: Topic.publish writes no Event to a real *)
(* subscriber whose session identity is the origin handler's; every other  *)
(* real subscriber whose socket is open is written exactly one Event, its  *)
(* own; with no origin handler every real subscriber with an open socket   *)
(* is written one.                                                         *)
(***************************************************************************)
C9_SelfExclusion ==
    [][ret'.op = "Topic.publish" =>
          LET subs == uris[ret'.name].subscribers
              origin == ret'.handler
          IN  \A i \in 1 .. Len(subs) :
                 ~subs[i].pseudo =>
                    LET own == own_session(subs[i], origin)
                        n == writes_for(ret'.writes, subs[i].subscription_id)
                    IN  /\ own => n = 0
                        /\ (~own /\ subs[i].handler \notin closed) => n = 1
                        /\ \A k \in 1 .. Len(ret'.writes) :
                              ret'.writes[k].subscription_id
                                    = subs[i].subscription_id
                                 => ret'.writes[k].handler = subs[i].handler]_vars

\* a publish by a subscribed handler reached another subscriber and skipped
\* the publisher's own subscription
C9_Witness ==
    /\ ret.op = "Topic.publish"
    /\ ret.handler # NoHandler
    /\ backed_by(uris[ret.name], ret.handler) # {}
    /\ Len(ret.writes) >= 1
    /\ \A k \in 1 .. Len(ret.writes) : ret.writes[k].handler # ret.handler

(***************************************************************************)
(* C10.  Dead-subscriber purge: when the write to a real subscriber fails  *)
(* during Topic.publish because its socket is closed, that subscription is *)
(* gone from the table when publish returns, every subscription whose      *)
(* write did not fail is still there in the same order, and every other    *)
(* eligible subscriber, before and after the failed one, got its Event or  *)
(* its callback from the same publish.                                     *)
(***************************************************************************)
C10_DeadSubscriberPurge ==
    [][ret'.op = "Topic.publish" =>
          LET subs == uris[ret'.name].subscribers
              origin == ret'.handler
              fails(sub) == /\ ~sub.pseudo
                            /\ ~own_session(sub, origin)
                            /\ sub.handler \in closed
              survives(sub) == ~fails(sub)
          IN  /\ \A i \in 1 .. Len(subs) :
                    IF fails(subs[i])
                    THEN subs[i].subscription_id
                            \notin subscriber_keys(uris'[ret'.name].subscribers)
                    ELSE /\ subs[i] \in seq_range(uris'[ret'.name].subscribers)
                         /\ (~subs[i].pseudo /\ ~own_session(subs[i], origin))
                               => writes_for(ret'.writes,
                                             subs[i].subscription_id) = 1
                         /\ subs[i].pseudo
                               => subs[i].subscription_id
                                     \in seq_range(ret'.callbacks)
              /\ uris'[ret'.name].subscribers = SelectSeq(subs, survives)]_vars

\* a publish purged a dead subscription and delivered to a subscription
\* added before it and to one added after it
C10_Witness ==
    /\ ret.op = "Topic.publish"
    /\ Len(ret.purge) >= 1
    /\ \E k1 \in 1 .. Len(ret.writes), k2 \in 1 .. Len(ret.writes) :
          /\ ret.writes[k1].subscription_id < ret.purge[1]
          /\ ret.purge[1] < ret.writes[k2].subscription_id
    /\ ret.purge[1] \notin subscriber_keys(uris[ret.name].subscribers)

(***************************************************************************)
(* C11.  URIManager.publish to a name that follows the naming rule and has *)
(* no registry entry raises nothing, writes to no handler, calls no        *)
(* callback and leaves uris and registrations as they were: the topic is   *)
(* not created.                                                            *)
(***************************************************************************)
C11_PublishToNobodySilent ==
    [][(/\ next_id' # next_id
        /\ ret'.op = "publish"
        /\ Conforms(ret'.name)
        /\ ret'.name \notin DOMAIN uris)
          => /\ ret'.exc = "none"
             /\ ret'.writes = <<>>
             /\ ret'.callbacks = <<>>
             /\ ret'.purge = <<>>
             /\ uris' = uris
             /\ registrations' = registrations]_vars

C11_Witness ==
    /\ ret.op = "publish"
    /\ Conforms(ret.name)
    /\ ret.name \notin DOMAIN uris
    /\ registrations_of(registrations, ret.name) = {}
    /\ ret.exc = "none"
    /\ ret.writes = <<>>

(***************************************************************************)
(* C12.  Topic.publish returns a Published message, with the request id of *)
(* the broadcast message and the topic's registration id as publication    *)
(* id, exactly when the options of the broadcast message set acknowledge   *)
(* to true; otherwise it returns no value.                                 *)
(* The code reads the field "acknowlege", which a message that asks for an *)
(* acknowledgement does not set.                                           *)
(***************************************************************************)
acknowledge_requested(msg) ==
    /\ "acknowledge" \in DOMAIN msg.options
    /\ msg.options["acknowledge"] = TRUE

C12_AcknowledgedPublish ==
    ret.op = "Topic.publish"
       => IF acknowledge_requested(ret.msg)
          THEN ret.answer =
                  [code |-> Code.PUBLISHED,
                   request_id |-> ret.msg.request_id,
                   publication_id |-> uris[ret.name].registration_id]
          ELSE ret.answer = NoMessage

(***************************************************************************)
(* C13.  Processing a Goodbye message with GoodbyeProcessor, also when no  *)
(* answer message is pending, yields a processor with must_close true,     *)
(* close_code 1000 and a Goodbye answer that echoes the inbound message.   *)
(* process() reads the details of answer_message while it is still None:   *)
(* the constructor raises and no processor results.                        *)
(***************************************************************************)
C13_GoodbyeAlwaysCloses ==
    processor.kind = "Goodbye"
       => /\ processor.constructed
          /\ processor.must_close = TRUE
          /\ processor.close_code = 1000
          /\ processor.answer_message =
                [code |-> Code.GOODBYE, details |-> processor.message[2],
                 reason |-> processor.message[3]]

(***************************************************************************)
(* C14.  When process() raises a protocol exception the construction still *)
(* completes, answer_message is the exception's Error message, must_close  *)
(* stays false and close_code and close_reason stay absent; a constructed  *)
(* UnhandledProcessor or HelloProcessor never has must_close set.          *)
(***************************************************************************)
C14_ProtocolErrorsAnswered ==
    /\ processor.exc = "WAMPException"
          => /\ processor.constructed
             /\ processor.answer_message = processor.exc_message
             /\ processor.answer_message.code = Code.ERROR
             /\ processor.must_close = FALSE
             /\ processor.close_code = NoId
             /\ processor.close_reason = absent
    /\ processor.kind \in {"Unhandled", "Hello"}
          => /\ processor.constructed
             /\ processor.must_close = FALSE

C14_Witness ==
    /\ processor.kind = "Hello"
    /\ processor.exc = "WAMPException"
    /\ processor.constructed
    /\ processor.answer_message.code = Code.ERROR
    /\ realm[processor.handler] = NoRealm

C16_ZombieCutOff ==
    [][/\ (next_id' # next_id /\ ret'.op = "Topic.publish")
           => \A k \in 1 .. Len(ret'.writes) :
                 ~transport[ret'.writes[k].handler].zombie
       /\ (/\ next_id' # next_id
           /\ ret'.op = "Topic.add_subscriber"
           /\ ret'.handler # NoHandler
           /\ transport[ret'.handler].zombie)
           => uris'[ret'.name].subscribers = uris[ret'.name].subscribers
       /\ \A h \in Handlers :
             transport'[h].zombie => transport'[h].zombification_datetime # NoTime
      ]_vars

(***************************************************************************)
(* C17.  In the legacy registry, for both roles r: after add_r(T, C) the r *)
(* set of manager[T] contains C and C.topics[r] has the key T; after       *)
(* remove_r(T, C) the set does not contain C and the key T is absent from  *)
(* C.topics[r]; remove_r of a connection that is no member raises nothing. *)
(***************************************************************************)
C17_LegacyRoundTrip ==
    /\ ret.op = "legacy.add"
          => /\ ret.name \in DOMAIN topics_manager
             /\ ret.handler \in topics_manager[ret.name][ret.uri_type]
             /\ ret.name \in DOMAIN connection_topics[ret.handler][ret.uri_type]
    /\ ret.op = "legacy.remove"
          => /\ ret.exc = "none"
             /\ ret.name \in DOMAIN topics_manager
                   => ret.handler \notin topics_manager[ret.name][ret.uri_type]
             /\ ret.name \notin
                   DOMAIN connection_topics[ret.handler][ret.uri_type]

\* one add so far, to the topic of the last remove, and nothing is left of it
C17_Witness ==
    /\ ret.op = "legacy.remove"
    /\ next_id = FirstFreeId + 1
    /\ DOMAIN topics_manager = {ret.name}
    /\ \A r \in Roles : topics_manager[ret.name][r] = {}
    /\ \A c \in Connections, r \in Roles : connection_topics[c][r] = EmptyMap

(***************************************************************************)
(* C18.  In the legacy registry, after any adds in either role on any      *)
(* topics, one remove_connection(C) leaves C in no topic's subscriber set  *)
(* and in no topic's publisher set, and every other connection stays a     *)
(* member wherever it was.                                                 *)
(***************************************************************************)
C18_RemoveConnectionPurges ==
    [][ret'.op = "legacy.remove_connection"
          => /\ DOMAIN topics_manager' = DOMAIN topics_manager
             /\ \A name \in DOMAIN topics_manager', r \in Roles :
                   /\ ret'.handler \notin topics_manager'[name][r]
                   /\ \A c \in Connections \ {ret'.handler} :
                         c \in topics_manager'[name][r]
                            <=> c \in topics_manager[name][r]]_vars

\* C had two memberships, another connection has one and keeps it
C18_Witness ==
    /\ ret.op = "legacy.remove_connection"
    /\ \E name \in DOMAIN connection_topics[ret.handler]["subscriber"] :
          /\ name \in DOMAIN topics_manager
          /\ ret.handler \notin topics_manager[name]["subscriber"]
    /\ \E name \in DOMAIN connection_topics[ret.handler]["publisher"] :
          /\ name \in DOMAIN topics_manager
          /\ ret.handler \notin topics_manager[name]["publisher"]
    /\ \E name \in DOMAIN topics_manager, r \in Roles,
          c \in Connections \ {ret.handler} : c \in topics_manager[name][r]

(***************************************************************************)
(* C19.  The legacy SubscribeProcessor follows the authorization result.   *)
(* Allowed: the connection is registered as a subscriber of the topic and  *)
(* the answer is Subscribed with the inbound request id and the newly      *)
(* assigned subscription id.  Denied: the answer is an Error with uri      *)
(* "tornwamp.subscribe.unauthorized", the inbound request id and the       *)
(* Subscribe code, and nothing is registered.                              *)
(***************************************************************************)
C19_SubscribeFollowsAuthorization ==
    [][ret'.op = "authorize_subscription"
          => LET c == ret'.handler
                 topic == ret'.name
                 answer == processor'.answer_message
             IN  /\ processor'.kind = "Subscribe"
                 /\ IF ret'.answer.allow
                    THEN /\ topic \in DOMAIN topics_manager'
                         /\ c \in topics_manager'[topic]["subscriber"]
                         /\ topic \in DOMAIN connection_topics'[c]["subscriber"]
                         /\ connection_topics'[c]["subscriber"][topic] = next_id
                         /\ next_id' = next_id + 1
                         /\ answer = [code |-> Code.SUBSCRIBED,
                                      request_id |-> processor'.message[2],
                                      subscription_id |-> next_id]
                    ELSE /\ answer.code = Code.ERROR
                         /\ answer.uri = "tornwamp.subscribe.unauthorized"
                         /\ answer.request_id = processor'.message[2]
                         /\ answer.request_code = Code.SUBSCRIBE
                         /\ topics_manager' = topics_manager
                         /\ connection_topics' = connection_topics
                         /\ next_id' = next_id]_vars

\* a denied Subscribe for a topic another connection subscribed to
C19_Witness ==
    /\ ret.op = "authorize_subscription"
    /\ ~ret.answer.allow
    /\ processor.answer_message.uri = "tornwamp.subscribe.unauthorized"
    /\ ret.name \in DOMAIN topics_manager
    /\ topics_manager[ret.name]["subscriber"] # {}
    /\ ret.handler \notin topics_manager[ret.name]["subscriber"]

(***************************************************************************)
(* C20.  The legacy PublishProcessor follows the authorization result.     *)
(* Allowed: the answer is Published with the inbound request id and a      *)
(* freshly generated publication id, and every direct message is computed  *)
(* from that same id.  Denied: the answer is an Error with uri             *)
(* "tornwamp.publish.unauthorized", no publication id is generated and no  *)
(* direct message is produced.                                             *)
(***************************************************************************)
C20_PublishFollowsAuthorization ==
    [][ret'.op = "authorize_publication"
          => LET answer == processor'.answer_message
                 direct == processor'.direct_messages
             IN  /\ processor'.kind = "Publish"
                 /\ IF ret'.answer.allow
                    THEN /\ answer = [code |-> Code.PUBLISHED,
                                      request_id |-> processor'.message[2],
                                      publication_id |-> next_id]
                         /\ next_id' = next_id + 1
                         /\ \A k \in 1 .. Len(direct) :
                               direct[k].publication_id = next_id
                    ELSE /\ answer.code = Code.ERROR
                         /\ answer.uri = "tornwamp.publish.unauthorized"
                         /\ next_id' = next_id
                         /\ direct = <<>>]_vars

\* an allowed Publish with a direct message carrying the publication id
C20_Witness ==
    /\ ret.op = "authorize_publication"
    /\ ret.answer.allow
    /\ processor.answer_message.code = Code.PUBLISHED
    /\ Len(processor.direct_messages) = 1
    /\ processor.direct_messages[1].publication_id =
          processor.answer_message.publication_id

(***************************************************************************)
(* C21.  create_topic, reserve_topic and add_subscriber on a name that is  *)
(* registered to a URI that is no Topic (a procedure, a standard error)    *)
(* raise no_such_subscription, add no subscriber and leave the existing    *)
(* URI and both tables as they were.                                       *)
(***************************************************************************)
C21_TypeCollisionRefused ==
    [][(/\ next_id' # next_id
        /\ ret'.op \in {"create_topic", "reserve_topic", "add_subscriber"}
        /\ ret'.name \in DOMAIN uris
        /\ uris[ret'.name].uri_type # "TOPIC")
          => /\ ret'.exc = "no_such_subscription"
             /\ ret'.subscription_id = NoId
             /\ uris' = uris
             /\ registrations' = registrations]_vars

\* add_subscriber was refused on the name of a procedure
C21_Witness ==
    /\ ret.op = "add_subscriber"
    /\ ret.exc = "no_such_subscription"
    /\ ret.name \in DOMAIN uris
    /\ uris[ret.name].uri_type = "PROCEDURE"
    /\ uris[ret.name].subscribers = <<>>

(***************************************************************************)
(* C22.  When URIManager.disconnect(h) has returned, every Topic still in  *)
(* `uris` has at least one subscriber: a topic without subscribers is      *)
(* deleted from `uris` even when it is reserved, also by a handler other   *)
(* than h.                                                                 *)
(***************************************************************************)
C22_DisconnectCollectsIdleTopics ==
    [][ret'.op = "disconnect"
          => /\ \A n \in DOMAIN uris' :
                    uris'[n].uri_type = "TOPIC" => Len(uris'[n].subscribers) > 0
             /\ \A n \in DOMAIN uris :
                    (uris[n].uri_type = "TOPIC" /\ uris[n].subscribers = <<>>)
                        => n \notin DOMAIN uris']_vars

\* disconnect(h) deleted a subscriberless topic that another handler reserved
C22_Witness ==
    /\ ret.op = "disconnect"
    /\ \E u \in ret.deleted :
            /\ u.uri_type = "TOPIC"
            /\ u.subscribers = <<>>
            /\ u.reserver \notin {NoHandler, ret.handler}
            /\ u.name \notin DOMAIN uris

(***************************************************************************)
(* C23.  When add_subscriber(name, h) and another handler's disconnect(g)  *)
(* have both returned, the subscription id handed to h is the key of a     *)
(* subscriber of the Topic that `uris` holds under name, however the two   *)
(* calls interleaved.                                                      *)
(***************************************************************************)
C23_SubscriptionStaysRegistered ==
    \A t \in Threads : \A u \in Threads \ {t} :
        (/\ pc[t] = "done" /\ frame[t].op = "add_subscriber"
         /\ frame[t].exc = "none"
         /\ pc[u] = "done" /\ frame[u].op = "disconnect"
         /\ frame[u].exc = "none")
          => /\ frame[t].name \in DOMAIN uris
             /\ frame[t].subscription_id
                    \in subscriber_keys(uris[frame[t].name].subscribers)

(***************************************************************************)
(* C24.  The loopback transport keeps its two directions apart and in      *)
(* order: what receive_message has returned, followed by what still waits  *)
(* on the client's inbound queue, is exactly what write_message was given, *)
(* in that order, so each written message is received at most once and     *)
(* none is skipped; what read_message has returned, followed by what still *)
(* waits on the outbound queue, is exactly what the client placed there;   *)
(* read_message never returns a message given to write_message.            *)
(***************************************************************************)
C24_LoopbackDirections ==
    /\ history.written = history.received \o client.message_queue_in
    /\ history.placed = history.read \o client.message_queue_out
    /\ seq_range(history.read) \cap seq_range(history.written) = {}

\* two different written messages were received in order, and one was read
C24_Witness ==
    /\ Len(history.received) >= 2
    /\ history.received[1] # history.received[2]
    /\ history.received = history.written
    /\ Len(history.read) >= 1
    /\ client.message_queue_out # <<>>

====
